---- MODULE Spec2Model ----
(***************************************************************************)
(* Model of app.py: the Streamlit lecture page.  Two parts are modelled:   *)
(*   - the slide catalog: glob the slides directory, de-duplicate through  *)
(*     a Python set, sort by the first number in the base name, label each *)
(*     entry with a two-digit slide number;                                *)
(*   - the session: st.session_state.idx and st.session_state.tts_cache as *)
(*     they are changed by the button handlers of one script run.          *)
(* Strings are sequences of one-character strings, byte strings are        *)
(* sequences of integers 0..255.                                           *)
(***************************************************************************)
EXTENDS Integers, Sequences, FiniteSets, TLC

VARIABLES
    files,       \* the paths currently present in the slides directory
    rankL,       \* os.scandir order of the directory (every path once)
    rankH,       \* iteration order of a Python set of these paths (hash order)
    slide_imgs,  \* slide_imgs as computed by the last script run
    idx,         \* st.session_state.idx
    tts_cache,   \* st.session_state.tts_cache: slide_num -> audio value
    ev,          \* what the last script run did (observation of the run)
    failed,      \* slide_nums whose latest synthesis attempt raised
    invalidated, \* slide_num -> state before the pop, until the next Play
    prev_imgs,   \* slide_imgs of the script run before the last one
    runs         \* number of script runs so far, saturating at RunCap

vars == <<files, rankL, rankH, slide_imgs, idx, tts_cache, ev, failed,
          invalidated, prev_imgs, runs>>

----------------------------------------------------------------------------
(* Bounds of the model. *)

MaxFiles == 3

MaxSlides == 2

RunCap == 2

(* Program constants. *)

Sentinel == 9999

Offset == 2

----------------------------------------------------------------------------
(* Characters and strings. *)

DigitChars == <<"0", "1", "2", "3", "4", "5", "6", "7", "8", "9">>

IsDigit(c) == \E i \in 1..10 : DigitChars[i] = c

DigitVal(c) == (CHOOSE i \in 1..10 : DigitChars[i] = c) - 1

Range(s) == {s[i] : i \in 1..Len(s)}

StartsWith(s, p) == Len(s) >= Len(p) /\ SubSeq(s, 1, Len(p)) = p

EndsWith(s, p) ==
    Len(s) >= Len(p) /\ SubSeq(s, Len(s) - Len(p) + 1, Len(s)) = p

Reverse(s) == [i \in 1..Len(s) |-> s[Len(s) + 1 - i]]

Perms(S) ==
    {s \in [1..Cardinality(S) -> S] : Range(s) = S}

IndexOf(s, x) == CHOOSE i \in 1..Len(s) : s[i] = x

(* os.path.basename: what follows the last "/". *)
basename(path) ==
    LET slashes == {i \in 1..Len(path) : path[i] = "/"}
        start == IF slashes = {} THEN 1
                 ELSE (CHOOSE i \in slashes : \A j \in slashes : j <= i) + 1
    IN  SubSeq(path, start, Len(path))

(* int(): the value of a run of decimal digits. *)
RECURSIVE IntOf(_)
IntOf(ds) ==
    IF ds = <<>> THEN 0
    ELSE 10 * IntOf(SubSeq(ds, 1, Len(ds) - 1)) + DigitVal(ds[Len(ds)])

(* str() of a natural number: its decimal digits, no padding. *)
RECURSIVE Decimal(_)
Decimal(n) ==
    IF n < 10 THEN <<DigitChars[n + 1]>>
    ELSE Decimal(n \div 10) \o <<DigitChars[(n % 10) + 1]>>

(* The format spec 02d: decimal, padded with zeros to a width of at least 2. *)
Format02d(n) ==
    LET d == Decimal(n)
    IN  IF Len(d) < 2 THEN <<"0">> \o d ELSE d

----------------------------------------------------------------------------
(* The slides directory. *)

DirPrefix == <<"s", "l", "i", "d", "e", "s", "/">>

LowerStem == <<"s", "l", "i", "d", "e", "_">>

UpperStem == <<"S", "l", "i", "d", "e">>

ExtLower == <<".", "p", "n", "g">>

ExtUpper == <<".", "P", "N", "G">>

ExtJpg == <<".", "j", "p", "g">>

Slide_10 == DirPrefix \o LowerStem \o <<"1", "0">> \o ExtLower

Slide_1 == DirPrefix \o LowerStem \o <<"1">> \o ExtLower

Slide1Upper == DirPrefix \o UpperStem \o <<"1">> \o ExtUpper

Cover == DirPrefix \o <<"c", "o", "v", "e", "r">> \o ExtLower

Slide_100 == DirPrefix \o LowerStem \o <<"1", "0", "0">> \o ExtLower

Slide_9999 == DirPrefix \o LowerStem \o <<"9", "9", "9", "9">> \o ExtLower

Slide_10000 == DirPrefix \o LowerStem \o <<"1", "0", "0", "0", "0">> \o ExtLower

NotesJpg == DirPrefix \o <<"n", "o", "t", "e", "s", "7">> \o ExtJpg

(* Directory contents the catalog is checked on. *)
CatalogFiles ==
    {Slide_1, Slide1Upper, Slide_10, Slide_100, Slide_9999, Slide_10000,
     Cover, NotesJpg}

(* Directory contents of the session model, in a fixed scandir order. *)
SessionRank == <<Slide_10, Slide_1, Slide1Upper>>

SessionFiles == Range(SessionRank)

(* The glob patterns, each "slides/" + prefix + "*" + suffix. *)
patterns ==
    << [pre |-> DirPrefix \o LowerStem, suf |-> ExtLower],
       [pre |-> DirPrefix \o LowerStem, suf |-> ExtUpper],
       [pre |-> DirPrefix \o UpperStem, suf |-> ExtLower],
       [pre |-> DirPrefix \o UpperStem, suf |-> ExtUpper],
       [pre |-> DirPrefix,              suf |-> ExtLower],
       [pre |-> DirPrefix,              suf |-> ExtUpper] >>

(* fnmatch of one path against one pattern: "*" matches any run of          *)
(* characters without a "/".                                               *)
Matches(path, p) ==
    /\ Len(path) >= Len(p.pre) + Len(p.suf)
    /\ StartsWith(path, p.pre)
    /\ EndsWith(path, p.suf)
    /\ \A i \in (Len(p.pre) + 1)..(Len(path) - Len(p.suf)) : path[i] # "/"

(* Every path of the model, and for each the patterns it matches (Matches  *)
(* tabulated once).                                                        *)
AllPaths == CatalogFiles \cup SessionFiles

MatchTable ==
    [f \in AllPaths |-> {k \in 1..Len(patterns) : Matches(f, patterns[k])}]

(* os.scandir order of the directory as it is now. *)
Listing == SelectSeq(rankL, LAMBDA f : f \in files)

(* glob.glob(patterns[k]): the matching paths in directory order. *)
Glob(k) == SelectSeq(Listing, LAMBDA f : k \in MatchTable[f])

(* itertools.chain.from_iterable(glob.glob(p) for p in patterns). *)
RECURSIVE ChainFrom(_)
ChainFrom(k) ==
    IF k > Len(patterns) THEN <<>> ELSE Glob(k) \o ChainFrom(k + 1)

Chain == ChainFrom(1)

(* all_files = set(chain): every matched path once. *)
all_files == Range(Chain)

(* The order in which Python iterates over the set. *)
SetIterUnstable(S) ==
    IF runs % 2 = 0 THEN SelectSeq(rankH, LAMBDA f : f \in S)
    ELSE Reverse(SelectSeq(rankH, LAMBDA f : f \in S))

SetIter(S) == SelectSeq(rankH, LAMBDA f : f \in S)

(* re.search(r"(\d+)", basename): the first maximal run of digits. *)
FirstDigitRun(b) ==
    LET ds == {i \in 1..Len(b) : IsDigit(b[i])}
    IN  IF ds = {} THEN <<>>
        ELSE LET first == CHOOSE i \in ds : \A j \in ds : i <= j
                 stop  == CHOOSE j \in first..Len(b) :
                              /\ \A k \in first..j : IsDigit(b[k])
                              /\ (j = Len(b) \/ ~IsDigit(b[j + 1]))
             IN  SubSeq(b, first, stop)

extract_slide_number(path) ==
    LET m == FirstDigitRun(basename(path))
    IN  IF m # <<>> THEN IntOf(m) ELSE Sentinel

(* extract_slide_number tabulated once for every path of the model. *)
KeyTable == [f \in AllPaths |-> extract_slide_number(f)]

Key(path) == KeyTable[path]

(* sorted(iterable, key=...): stable, ascending by key. *)
Insert(sorted, x) ==
    LET k == Cardinality({i \in 1..Len(sorted) : Key(sorted[i]) <= Key(x)})
    IN  SubSeq(sorted, 1, k) \o <<x>> \o SubSeq(sorted, k + 1, Len(sorted))

RECURSIVE InsertAll(_)
InsertAll(s) ==
    IF s = <<>> THEN <<>>
    ELSE Insert(InsertAll(SubSeq(s, 1, Len(s) - 1)), s[Len(s)])

SortedUnsorted(s) == s

Sorted(s) == InsertAll(s)

(* slide_imgs = sorted(all_files, key=extract_slide_number) *)
Discover == Sorted(SetIter(all_files))

to_two_digit_slide_num(path, i) ==
    LET n == Key(path)
    IN  IF n # Sentinel THEN Format02d(n) ELSE Format02d(i + Offset)

(* The sidebar labels of a slide list: position i (0-based) is at i + 1. *)
Labels(imgs) ==
    [k \in 1..Len(imgs) |-> to_two_digit_slide_num(imgs[k], k - 1)]

----------------------------------------------------------------------------
(* Audio values: the synthesis response and what the cache holds. *)

Bytes(v) == [t |-> "bytes", v |-> v]

Str(v) == [t |-> "str", v |-> v]

None == [t |-> "none", v |-> <<>>]

Missing == [t |-> "missing", v |-> <<>>]

NoAudio == [t |-> "noaudio", v |-> <<>>]

B64Alphabet ==
    <<"A", "B", "C", "D", "E", "F", "G", "H", "I", "J", "K", "L", "M",
      "N", "O", "P", "Q", "R", "S", "T", "U", "V", "W", "X", "Y", "Z",
      "a", "b", "c", "d", "e", "f", "g", "h", "i", "j", "k", "l", "m",
      "n", "o", "p", "q", "r", "s", "t", "u", "v", "w", "x", "y", "z",
      "0", "1", "2", "3", "4", "5", "6", "7", "8", "9", "+", "/">>

IsB64(c) == \E i \in 1..64 : B64Alphabet[i] = c

B64Val(c) == (CHOOSE i \in 1..64 : B64Alphabet[i] = c) - 1

(* base64.b64decode(s) with validate=False, as binascii.a2b_base64 runs:    *)
(* characters outside the alphabet are skipped, a complete pad sequence     *)
(* ends the input, and data that stops inside a quad raises binascii.Error. *)
(* i: next position, quad: position in the quad, left: bits carried over,   *)
(* pads: pad characters seen in a row, out: bytes so far.                   *)
RECURSIVE B64Run(_, _, _, _, _, _)
B64Run(s, i, quad, left, pads, out) ==
    IF i > Len(s)
    THEN [raised |-> quad # 0, value |-> Bytes(out)]
    ELSE IF s[i] = "="
    THEN IF quad >= 2 /\ quad + pads + 1 >= 4
         THEN [raised |-> FALSE, value |-> Bytes(out)]
         ELSE B64Run(s, i + 1, quad, left, IF quad >= 2 THEN pads + 1 ELSE pads, out)
    ELSE IF ~IsB64(s[i])
    THEN B64Run(s, i + 1, quad, left, pads, out)
    ELSE LET c == B64Val(s[i])
         IN  CASE quad = 0 -> B64Run(s, i + 1, 1, c, 0, out)
               [] quad = 1 -> B64Run(s, i + 1, 2, c % 16, 0,
                                     Append(out, (left * 4 + c \div 16) % 256))
               [] quad = 2 -> B64Run(s, i + 1, 3, c % 4, 0,
                                     Append(out, (left * 16 + c \div 4) % 256))
               [] quad = 3 -> B64Run(s, i + 1, 0, 0, 0,
                                     Append(out, (left * 64 + c) % 256))

b64decode(s) == B64Run(s, 1, 0, 0, 0, <<>>)

(* What client.audio.speech.create can give back: it raises, or returns an  *)
(* object whose content / audio attributes are missing, None, bytes or a    *)
(* base64 string.                                                           *)
SpeechResults ==
    << [raises |-> TRUE,  content |-> Missing, audio |-> Missing],
       [raises |-> FALSE, content |-> Bytes(<<73, 68>>), audio |-> Missing],
       [raises |-> FALSE, content |-> None,
                          audio |-> Str(<<"/", "w", "=", "=">>)],
       [raises |-> FALSE, content |-> Str(<<"/", "w">>), audio |-> Missing],
       [raises |-> FALSE, content |-> Missing, audio |-> Missing] >>

(* Lines 124-130: pick the payload and decode it when it is a string. *)
Normalize(speech) ==
    LET a0 == IF speech.content.t = "missing" THEN None ELSE speech.content
        a1 == IF a0.t = "none" /\ speech.audio.t # "missing"
              THEN speech.audio ELSE a0
    IN  IF a1.t = "str" THEN b64decode(a1.v)
        ELSE [raised |-> FALSE, value |-> a1]

(* The try block of lines 113-131 as a whole. *)
Synthesize(speech) ==
    IF speech.raises THEN [raised |-> TRUE, value |-> None]
    ELSE Normalize(speech)

(* Python truthiness of a cached value (line 134). *)
Truthy(v) == v.t = "bytes" /\ v.v # <<>>

----------------------------------------------------------------------------
(* The cache dictionary. *)

EmptyCache == [k \in {} |-> None]

Store(cache, id, v) ==
    [k \in DOMAIN cache \cup {id} |-> IF k = id THEN v ELSE cache[k]]

PopKeepsEntry(cache, id) == cache

PopClearsAll(cache, id) == EmptyCache

(* tts_cache.pop(slide_num, None) *)
Pop(cache, id) == [k \in DOMAIN cache \ {id} |-> cache[k]]

NeedsSynthesisAlways(cache, id) == TRUE

(* line 112: slide_num not in st.session_state.tts_cache *)
NeedsSynthesis(cache, id) == id \notin DOMAIN cache

CacheAfterFailurePoisoned(cache, id) == Store(cache, id, None)

(* lines 132-133: the except branch reports the error and stores nothing *)
CacheAfterFailure(cache, id) == cache

----------------------------------------------------------------------------
(* Observation of a script run. *)

Quiet ==
    [op |-> "load", id |-> <<>>, hit |-> FALSE,
     prior |-> "none", synth |-> 0, raised |-> FALSE, resp |-> 0,
     chain |-> 0, out |-> NoAudio]

(* Line 95 succeeds: the slide panel of the last run was drawn in full. *)
Located == slide_imgs # <<>> /\ idx < Len(slide_imgs)

(* The slide number the buttons of the last run were keyed with (line 96). *)
SlideNum(imgs) == to_two_digit_slide_num(imgs[idx + 1], idx)

Min(a, b) == IF a < b THEN a ELSE b

----------------------------------------------------------------------------
(* The catalog alone: a directory is drawn, the script scans it again and   *)
(* again (lines 13-24).                                                     *)

InitCatalog ==
    /\ files \in {S \in SUBSET CatalogFiles : Cardinality(S) <= MaxFiles}
    /\ rankL \in Perms(files)
    /\ rankH \in Perms(files)
    /\ slide_imgs = <<>>
    /\ prev_imgs = <<>>
    /\ runs = 0
    /\ idx = 0
    /\ tts_cache = EmptyCache
    /\ ev = Quiet
    /\ failed = {}
    /\ invalidated = EmptyCache

Rescan ==
    /\ slide_imgs' = Discover
    /\ prev_imgs' = slide_imgs
    /\ runs' = Min(runs + 1, RunCap)
    /\ UNCHANGED <<files, rankL, rankH, idx, tts_cache, ev, failed, invalidated>>

NextCatalog == Rescan

SpecCatalog == InitCatalog /\ [][NextCatalog]_vars

----------------------------------------------------------------------------
(* The session.  Every action is one user interaction: the script runs from *)
(* the top (the directory is scanned again), the widget that was clicked    *)
(* returns True, and st.rerun() runs the script once more.  A widget can be *)
(* clicked only if the last run drew it, and it fires only if this run      *)
(* reaches it with the same key; a click that does not fire is a Rerun.     *)

InitSession ==
    /\ files \in {S \in SUBSET SessionFiles : Cardinality(S) <= MaxSlides}
    /\ rankL = SessionRank
    /\ rankH \in {SessionRank, Reverse(SessionRank)}
    /\ slide_imgs = Discover
    /\ idx = 0
    /\ tts_cache = EmptyCache
    /\ ev = Quiet
    /\ failed = {}
    /\ invalidated = EmptyCache
    /\ prev_imgs = <<>>
    /\ runs = 0

(* The slide panel of this run is drawn (lines 92-96 pass). *)
PanelDrawn(imgs) == imgs # <<>> /\ idx < Len(imgs)

(* A button of the slide panel, drawn by the last run, is reached again. *)
PanelClick(imgs) == Located /\ PanelDrawn(imgs)

(* The audio buttons are keyed by slide number (lines 107, 136). *)
AudioClick(imgs) == PanelClick(imgs) /\ SlideNum(imgs) = SlideNum(slide_imgs)

(* The files in the slides directory change between two script runs. *)
DirChange ==
    /\ \E f \in SessionFiles :
           /\ files' = IF f \in files THEN files \ {f} ELSE files \cup {f}
           /\ Cardinality(files') <= MaxSlides
    /\ ev' = [Quiet EXCEPT !.op = "dir"]
    /\ UNCHANGED <<rankL, rankH, slide_imgs, idx, tts_cache, failed,
                   invalidated, prev_imgs, runs>>

(* A script run in which no slide widget fires (page interaction, chat).    *)
(* With slides present and idx past the end, line 95 raises IndexError.     *)
Rerun ==
    LET imgs == Discover
    IN  /\ slide_imgs' = imgs
        /\ ev' = [Quiet EXCEPT !.op =
                     IF imgs # <<>> /\ ~PanelDrawn(imgs)
                     THEN "IndexError" ELSE "rerun"]
        /\ UNCHANGED <<files, rankL, rankH, idx, tts_cache, failed,
                       invalidated, prev_imgs, runs>>

(* Sidebar button nav_i (lines 66-71). *)
Nav ==
    LET imgs == Discover
    IN  /\ \E i \in 0..(Len(slide_imgs) - 1) :
               /\ i < Len(imgs)
               /\ idx' = i
        /\ slide_imgs' = imgs
        /\ ev' = [Quiet EXCEPT !.op = "nav"]
        /\ UNCHANGED <<files, rankL, rankH, tts_cache, failed, invalidated,
                       prev_imgs, runs>>

(* Line 142-143: the index after Prev. *)
PrevIdx(i, n) == IF i > 0 THEN i - 1 ELSE i

(* Line 145-146: the index after Next, n slides. *)
NextIdx(i, n) == IF i < n - 1 THEN i + 1 ELSE i

(* Lines 142-144. *)
Prev ==
    LET imgs == Discover
    IN  /\ PanelClick(imgs)
        /\ idx' = PrevIdx(idx, Len(imgs))
        /\ slide_imgs' = imgs
        /\ ev' = [Quiet EXCEPT !.op = "prev"]
        /\ UNCHANGED <<files, rankL, rankH, tts_cache, failed, invalidated,
                       prev_imgs, runs>>

(* Lines 145-147. *)
Next ==
    LET imgs == Discover
    IN  /\ PanelClick(imgs)
        /\ idx' = NextIdx(idx, Len(imgs))
        /\ slide_imgs' = imgs
        /\ ev' = [Quiet EXCEPT !.op = "next"]
        /\ UNCHANGED <<files, rankL, rankH, tts_cache, failed, invalidated,
                       prev_imgs, runs>>

(* Progress of the scenario "fails, retried with success, asked again". *)
ChainAfter(id, need, raised) ==
    IF need /\ raised THEN 1
    ELSE IF ev.op = "play" /\ ev.id = id /\ ev.chain = 1 /\ need THEN 2
    ELSE IF ev.op = "play" /\ ev.id = id /\ ev.chain = 2 /\ ~need THEN 3
    ELSE 0

(* Play audio narration with a client (lines 107-135). *)
PlayAudio ==
    LET imgs == Discover
    IN  /\ AudioClick(imgs)
        /\ \E r \in 1..Len(SpeechResults) :
               LET id     == SlideNum(imgs)
                   need   == NeedsSynthesis(tts_cache, id)
                   res    == Synthesize(SpeechResults[r])
                   cache1 == IF ~need THEN tts_cache
                             ELSE IF res.raised
                             THEN CacheAfterFailure(tts_cache, id)
                             ELSE Store(tts_cache, id, res.value)
               IN  /\ tts_cache' = cache1
                   /\ failed' = IF ~need THEN failed
                                ELSE IF res.raised THEN failed \cup {id}
                                ELSE failed \ {id}
                   /\ invalidated' =
                          [k \in DOMAIN invalidated \ {id} |-> invalidated[k]]
                   /\ ev' = [op |-> "play", id |-> id,
                             hit |-> id \in DOMAIN tts_cache,
                             prior |-> IF id \in DOMAIN invalidated
                                       THEN invalidated[id] ELSE "none",
                             synth |-> IF need THEN 1 ELSE 0,
                             raised |-> need /\ res.raised,
                             resp |-> IF need THEN r ELSE 0,
                             chain |-> ChainAfter(id, need, res.raised),
                             out |-> IF id \in DOMAIN cache1 /\ Truthy(cache1[id])
                                     THEN cache1[id] ELSE NoAudio]
        /\ slide_imgs' = imgs
        /\ UNCHANGED <<files, rankL, rankH, idx, prev_imgs, runs>>

(* Play audio narration without a client (lines 107-109): a warning. *)
PlayNoClient ==
    LET imgs == Discover
    IN  /\ AudioClick(imgs)
        /\ slide_imgs' = imgs
        /\ ev' = [Quiet EXCEPT !.op = "play_noclient", !.id = SlideNum(imgs)]
        /\ UNCHANGED <<files, rankL, rankH, idx, tts_cache, failed,
                       invalidated, prev_imgs, runs>>

(* Regenerate audio with a client (lines 136-138). *)
Regenerate ==
    LET imgs == Discover
    IN  /\ AudioClick(imgs)
        /\ LET id == SlideNum(imgs)
           IN  /\ tts_cache' = Pop(tts_cache, id)
               /\ invalidated' =
                      Store(invalidated, id,
                            IF id \in DOMAIN tts_cache THEN "cached"
                            ELSE IF id \in failed THEN "failed"
                            ELSE "uncached")
               /\ ev' = [Quiet EXCEPT !.op = "regen", !.id = id,
                                      !.hit = id \in DOMAIN tts_cache]
        /\ slide_imgs' = imgs
        /\ UNCHANGED <<files, rankL, rankH, idx, failed, prev_imgs, runs>>

(* Regenerate audio without a client: "button(...) and client" is false. *)
RegenerateNoClient ==
    LET imgs == Discover
    IN  /\ AudioClick(imgs)
        /\ slide_imgs' = imgs
        /\ ev' = [Quiet EXCEPT !.op = "regen_noclient", !.id = SlideNum(imgs)]
        /\ UNCHANGED <<files, rankL, rankH, idx, tts_cache, failed,
                       invalidated, prev_imgs, runs>>

NextSession ==
    \/ DirChange
    \/ Rerun
    \/ Nav
    \/ Prev
    \/ Next
    \/ PlayAudio
    \/ PlayNoClient
    \/ Regenerate
    \/ RegenerateNoClient

Spec == InitSession /\ [][NextSession]_vars

----------------------------------------------------------------------------
(* Properties of the catalog, checked under SpecCatalog. *)

HasDigits(path) == FirstDigitRun(basename(path)) # <<>>

(* Position of a path in discovery order: its first occurrence in the chain *)
(* of glob results.                                                         *)
DiscoveryPos(path) ==
    CHOOSE i \in 1..Len(Chain) :
        Chain[i] = path /\ \A j \in 1..(i - 1) : Chain[j] # path

Positions == 1..Len(slide_imgs)

C7_DisplayIdIsTwoDigits ==
    runs >= 1 =>
        \A k \in Positions :
            /\ Len(Labels(slide_imgs)[k]) = 2
            /\ \A c \in 1..Len(Labels(slide_imgs)[k]) :
                   IsDigit(Labels(slide_imgs)[k][c])

(* C8 as claimed: an entry whose base name has digits is labelled with its  *)
(* extracted integer padded to two digits; an entry without digits, and     *)
(* only such an entry, is labelled with its position plus 2.                *)
C8_DisplayIdRule ==
    runs >= 1 =>
        \A k \in Positions :
            LET f == slide_imgs[k]
            IN  Labels(slide_imgs)[k] =
                    IF HasDigits(f) THEN Format02d(IntOf(FirstDigitRun(basename(f))))
                    ELSE Format02d((k - 1) + Offset)

----------------------------------------------------------------------------
(* Properties of the session, checked under Spec. *)

IsRawBytes(v) ==
    /\ v.t = "bytes"
    /\ \A i \in 1..Len(v.v) : v.v[i] \in 0..255

(* C1: a Play for a slide number that is not cached calls the synthesis     *)
(* once and, when the call and the decoding succeed, stores the result; a   *)
(* Play for a cached slide number calls no synthesis, leaves the cache as   *)
(* it is and plays the cached bytes.                                        *)
C1_AtMostOnceSynthesis ==
    [][ev'.op = "play" =>
          IF ev'.id \in DOMAIN tts_cache
          THEN /\ ev'.synth = 0
               /\ tts_cache' = tts_cache
               /\ Truthy(tts_cache[ev'.id]) => ev'.out = tts_cache[ev'.id]
          ELSE /\ ev'.synth = 1
               /\ ~ev'.raised =>
                      /\ ev'.id \in DOMAIN tts_cache'
                      /\ tts_cache'[ev'.id] =
                             Synthesize(SpeechResults[ev'.resp]).value
                      /\ Truthy(tts_cache'[ev'.id]) =>
                             ev'.out = tts_cache'[ev'.id]]_vars

(* A Play found its slide number cached, called no synthesis and played the *)
(* cached bytes.                                                            *)
C1_Witness ==
    /\ ev.op = "play"
    /\ ev.hit
    /\ ev.synth = 0
    /\ ev.id \in DOMAIN tts_cache
    /\ IsRawBytes(tts_cache[ev.id])
    /\ ev.out = tts_cache[ev.id]

(* C2: a synthesis that raises is caught: the run still draws the slide     *)
(* panel, nothing is played and the cache is unchanged, with no entry for   *)
(* the slide number; the next Play for it calls the synthesis again and     *)
(* stores the result when it succeeds; the Play after that calls no         *)
(* synthesis and plays what is cached.                                      *)
C2_FailureLeavesNoEntryAndRetries ==
    [][ev'.op = "play" =>
          /\ ev'.raised =>
                 /\ ev'.synth = 1
                 /\ tts_cache' = tts_cache
                 /\ ev'.id \notin DOMAIN tts_cache'
                 /\ ev'.out = NoAudio
                 /\ slide_imgs' # <<>> /\ idx' < Len(slide_imgs')
          /\ ev'.id \in failed =>
                 /\ ev'.id \notin DOMAIN tts_cache
                 /\ ev'.synth = 1
                 /\ ~ev'.raised =>
                        /\ ev'.id \in DOMAIN tts_cache'
                        /\ tts_cache'[ev'.id] =
                               Synthesize(SpeechResults[ev'.resp]).value
          /\ ev'.chain = 3 =>
                 /\ ev'.synth = 0
                 /\ tts_cache' = tts_cache
                 /\ ev'.id \in DOMAIN tts_cache
                 /\ Truthy(tts_cache[ev'.id]) => ev'.out = tts_cache[ev'.id]]_vars

(* Three Plays in a row for one slide number: the synthesis raised, the     *)
(* retry succeeded, the third played the cached bytes without synthesis.    *)
C2_Witness ==
    /\ ev.op = "play"
    /\ ev.chain = 3
    /\ ev.synth = 0
    /\ ev.id \in DOMAIN tts_cache
    /\ IsRawBytes(tts_cache[ev.id])
    /\ ev.out = tts_cache[ev.id]

(* C3: a slide number that was invalidated has no cache entry until its     *)
(* next Play, and that Play calls the synthesis once, whether the slide     *)
(* number was cached, not cached or failed before the invalidate.           *)
C3_InvalidateThenPlaySynthesizesOnce ==
    /\ \A id \in DOMAIN invalidated : id \notin DOMAIN tts_cache
    /\ ev.op = "regen" => ev.id \in DOMAIN invalidated
    /\ (ev.op = "play" /\ ev.prior # "none") => (ev.synth = 1 /\ ~ev.hit)

(* A Play after the invalidate of a cached slide number called synthesis. *)
C3_Witness ==
    /\ ev.op = "play"
    /\ ev.prior = "cached"
    /\ ev.synth = 1

(* C4 as claimed: every cached value is a raw byte string; a base64 payload *)
(* is stored decoded; a response without a payload is not stored and leaves *)
(* the slide number without an entry.                                       *)
C4_CacheHoldsOnlyRawBytes ==
    /\ \A id \in DOMAIN tts_cache : IsRawBytes(tts_cache[id])
    /\ (ev.op = "play" /\ ev.resp = 3) => tts_cache[ev.id] = Bytes(<<255>>)
    /\ (ev.op = "play" /\ ev.resp = 5) => ev.id \notin DOMAIN tts_cache

(* C5: Play and Regenerate for a slide number leave the entry of every      *)
(* other slide number as it was, no other action changes the cache, and     *)
(* Regenerate removes the entry of its slide number, changing nothing when  *)
(* there was none.                                                          *)
C5_OtherEntriesUnchanged ==
    [][/\ ev'.op \in {"play", "regen"} =>
              \A k \in (DOMAIN tts_cache \cup DOMAIN tts_cache') \ {ev'.id} :
                  /\ k \in DOMAIN tts_cache
                  /\ k \in DOMAIN tts_cache'
                  /\ tts_cache'[k] = tts_cache[k]
       /\ ev'.op \notin {"play", "regen"} => tts_cache' = tts_cache
       /\ ev'.op = "regen" =>
              /\ ev'.id \notin DOMAIN tts_cache'
              /\ ev'.id \notin DOMAIN tts_cache => tts_cache' = tts_cache
              /\ slide_imgs' # <<>> /\ idx' < Len(slide_imgs')]_vars

(* A Regenerate removed a cached entry while another slide number stayed    *)
(* cached.                                                                  *)
C5_Witness ==
    /\ ev.op = "regen"
    /\ ev.hit
    /\ DOMAIN tts_cache # {}

(* C10 as claimed: whenever the slide list of a run is not empty, idx is    *)
(* within 0..len(slide_imgs)-1.                                             *)
C10_IndexInRange ==
    slide_imgs # <<>> => (idx >= 0 /\ idx <= Len(slide_imgs) - 1)

====
